---- MODULE Spec2Model ----
(***************************************************************************)
(* Module instance addresses (internal/addrs/module_instance.go) and the   *)
(* module graph node (terraform/graph_config_node_module.go).              *)
(*                                                                         *)
(* Text is modelled as a sequence of one-character strings, so that        *)
(* rendering an address and parsing it back are two different functions.   *)
(* Vertex names of the module graph are plain strings.                     *)
(***************************************************************************)
EXTENDS Integers, Sequences, FiniteSets, TLC

VARIABLES
    \* ModuleInstance.TargetContains
    m,          \* the receiver
    arg,        \* the Targetable handed to the outermost call
    to,         \* the Targetable of the call being executed
    result,     \* the value returned, meaningful once cpc = "done"
    cpc,        \* "call" | "done"
    \* ParseModuleInstanceStr / parseModuleInstance / parseModuleInstancePrefix
    src,        \* the ModuleInstance that String() rendered (round trip only)
    str,        \* the text handed to ParseModuleInstanceStr
    traversal,  \* the hcl.Traversal handed to parseModuleInstancePrefix
    remain,     \* the local variable remain
    mi,         \* the local variable mi
    diags,      \* the diagnostics accumulated so far (sequence of details)
    retRemain,  \* the returned remainder
    addr,       \* the address returned by parseModuleInstance
    entry,      \* "ParseModuleInstanceStr" | "parseModuleInstance"
    ppc,        \* position in the parser
    \* graphNodeModuleExpanded.FlattenGraph
    built,      \* the subgraph as it was when FlattenGraph was called
    graph,      \* n.Graph: Path, vertices, edges
    pathStr,    \* the local variable pathStr
    todo,       \* the vertices of graph.Vertices() not yet visited
    panicMsg,   \* the value FlattenGraph panicked with
    fpc,        \* "start" | "loop" | "returned" | "panicked"
    \* GraphNodeConfigModule.Expand and the evaluation of EvalTree
    heap,       \* the maps made so far, by reference
    calls,      \* what each Expand call returned
    evals,      \* per Expand call, how far the evaluation of its node got
    walk        \* the walk operation of the evaluation context

addrVars  == <<m, arg, to, result, cpc>>
parseVars == <<src, str, traversal, remain, mi, diags, retRemain, addr, entry, ppc>>
flatVars  == <<built, graph, pathStr, todo, panicMsg, fpc>>
expVars   == <<heap, calls, evals, walk>>
vars      == <<addrVars, parseVars, flatVars, expVars>>

---------------------------------------------------------------------------
(* Bounds *)

MaxDepth  == 2      \* steps of an address handed to TargetContains
MaxTokens == 5      \* tokens of a traversal handed to the prefix parser
MaxSteps  == 2      \* steps of an address that is rendered and parsed back
MaxVertices == 3    \* vertices of a subgraph handed to FlattenGraph
MaxExpands == 3     \* calls of Expand

SeqsUpTo(S, n) == UNION {[1..k -> S] : k \in 0..n}

---------------------------------------------------------------------------
(* instanceKey: NoKey, intKey(n), stringKey(s) *)

NoKey        == [type |-> "none",   ival |-> 0, sval |-> <<>>]
intKey(n)    == [type |-> "int",    ival |-> n, sval |-> <<>>]
stringKey(s) == [type |-> "string", ival |-> 0, sval |-> s]

ModuleInstanceStep(name, key) == [Name |-> name, InstanceKey |-> key]

RootModuleInstance == <<>>

\* the path of the root module's graph
RootModulePath == <<"root">>

Child(mod, name, key) == Append(mod, ModuleInstanceStep(name, key))

---------------------------------------------------------------------------
(* ModuleInstance.TargetContains *)

\* the loop of lines 265-270: first mismatch returns false
RECURSIVE StepsMatchFrom(_, _, _)
StepsMatchFrom(our, their, i) ==
    IF i > Len(our) THEN TRUE
    ELSE IF our[i] # their[i] THEN FALSE
    ELSE StepsMatchFrom(our, their, i + 1)

\* a comparison that looks at the names only
ContainsInstance_NamesOnly(our, their) ==
    IF Len(their) < Len(our) THEN FALSE
    ELSE \A i \in 1..Len(our) : our[i].Name = their[i].Name

ContainsInstance(our, their) ==
    IF Len(their) < Len(our) THEN FALSE
    ELSE StepsMatchFrom(our, their, 1)

ContainsNames == {<<"a">>, <<"b">>}
ContainsKeys  == {NoKey, intKey(1), intKey(2)}
ContainsSteps == {ModuleInstanceStep(n, k) : n \in ContainsNames, k \in ContainsKeys}
                    \cup {ModuleInstanceStep(<<"a">>, stringKey(<<"1">>))}
ContainsInstances == SeqsUpTo(ContainsSteps, MaxDepth)

TargetableKinds == {"ModuleInstance", "absResource", "absResourceInstance", "otherTargetable"}

Targetable(kind, mod) == [kind |-> kind, Module |-> mod]

InitContains ==
    /\ m \in ContainsInstances
    /\ \E kind \in TargetableKinds, mod \in ContainsInstances :
          arg = Targetable(kind, mod)
    /\ to = arg
    /\ result = FALSE
    /\ cpc = "call"
    \* the state of the other operations stays as it is
    /\ src = <<>> /\ str = <<>> /\ traversal = <<>> /\ remain = <<>>
    /\ mi = <<>> /\ diags = <<>> /\ retRemain = <<>> /\ addr = <<>>
    /\ entry = "none" /\ ppc = "idle"
    /\ built = [Path |-> RootModulePath, vertices |-> {}, edges |-> {}]
    /\ graph = [Path |-> RootModulePath, vertices |-> {}, edges |-> {}]
    /\ pathStr = "" /\ todo = {} /\ panicMsg = "" /\ fpc = "idle"
    /\ heap = <<>> /\ calls = <<>> /\ evals = <<>> /\ walk = "walkInvalid"

\* case ModuleInstance
TargetContainsModuleInstance ==
    /\ cpc = "call"
    /\ to.kind = "ModuleInstance"
    /\ result' = ContainsInstance(m, to.Module)
    /\ cpc' = "done"
    /\ UNCHANGED <<m, arg, to>>
    /\ UNCHANGED <<parseVars, flatVars, expVars>>

\* case absResource, absResourceInstance: return m.TargetContains(to.Module)
TargetContainsResource ==
    /\ cpc = "call"
    /\ to.kind \in {"absResource", "absResourceInstance"}
    /\ to' = Targetable("ModuleInstance", to.Module)
    /\ UNCHANGED <<m, arg, result, cpc>>
    /\ UNCHANGED <<parseVars, flatVars, expVars>>

\* default
TargetContainsDefault ==
    /\ cpc = "call"
    /\ to.kind \notin {"ModuleInstance", "absResource", "absResourceInstance"}
    /\ result' = FALSE
    /\ cpc' = "done"
    /\ UNCHANGED <<m, arg, to>>
    /\ UNCHANGED <<parseVars, flatVars, expVars>>

---------------------------------------------------------------------------
(* Claims about TargetContains *)

StepEq(s, t) ==
    /\ s.Name = t.Name
    /\ s.InstanceKey.type = t.InstanceKey.type
    /\ s.InstanceKey.ival = t.InstanceKey.ival
    /\ s.InstanceKey.sval = t.InstanceKey.sval

PrefixRule(a, b) ==
    /\ Len(b) >= Len(a)
    /\ \A i \in 1..Len(a) : StepEq(a[i], b[i])

AddressKinds == {"ModuleInstance", "absResource", "absResourceInstance"}

\* C1: a.TargetContains(b) is true iff b has at least as many steps as a and
\* every step of a equals the step of b at the same position in name and key;
\* a resource or resource-instance address is reduced to its owning module
\* instance; the relation is reflexive and transitive.
C1_TargetContains ==
    (cpc = "done" /\ arg.kind \in AddressKinds) =>
        /\ result = PrefixRule(m, arg.Module)
        /\ (arg.kind # "ModuleInstance" =>
               /\ to = Targetable("ModuleInstance", arg.Module)
               /\ result = ContainsInstance(m, to.Module))
        /\ (arg.Module = m => result)
        /\ (result => \A c \in ContainsInstances :
                         ContainsInstance(arg.Module, c) => ContainsInstance(m, c))

\* a resource inside a keyed sub-module of m is contained in m, and the
\* converse containment does not hold (the relation is not symmetric)
C1_Witness ==
    /\ cpc = "done"
    /\ arg.kind = "absResource"
    /\ Len(m) = 1 /\ Len(arg.Module) = 2
    /\ arg.Module[2].InstanceKey.type = "int"
    /\ result
    /\ ~ContainsInstance(arg.Module, m)

---------------------------------------------------------------------------
(* hcl.Traversal: TraverseRoot, TraverseAttr, TraverseIndex; cty values *)

kwModule == <<"m", "o", "d", "u", "l", "e">>

ctyNone      == [type |-> "none",   sval |-> <<>>, nval |-> 0, form |-> "none"]
ctyString(s) == [type |-> "string", sval |-> s,    nval |-> 0, form |-> "none"]
\* a number: a whole number that fits an int, a whole number plus a fraction,
\* or a whole number beyond the range of int
ctyNumber(n, form) == [type |-> "number", sval |-> <<>>, nval |-> n, form |-> form]
ctyBool      == [type |-> "bool",   sval |-> <<>>, nval |-> 0, form |-> "none"]

TraverseRoot(name) == [kind |-> "Root",  Name |-> name, Key |-> ctyNone]
TraverseAttr(name) == [kind |-> "Attr",  Name |-> name, Key |-> ctyNone]
TraverseIndex(key) == [kind |-> "Index", Name |-> <<>>, Key |-> key]

DetailFollowedByDot == "Module address prefix must be followed by dot and then a name."
DetailModuleName    == "Prefix \"module.\" must be followed by a module name."
DetailModuleIndex   == "Invalid module index"
DetailModuleKey     == "Invalid module key: must be either a string or an integer."
DetailMustBegin     == "A module instance address must begin with \"module.\"."
DetailAdditional    == "The module instance address is followed by additional invalid content."

---------------------------------------------------------------------------
(* parseModuleInstancePrefix *)

\* lines 86-100: the name carried by the token at the head of remain
NextName(tt) ==
    IF tt.kind \in {"Root", "Attr"}
    THEN [next |-> tt.Name, diags |-> <<>>]
    ELSE [next |-> <<>>,    diags |-> <<DetailFollowedByDot>>]

\* lines 121-133: the module name carried by the token after the keyword; the
\* break of the default case leaves the switch only
ModuleName(tt) ==
    IF tt.kind = "Attr"
    THEN [moduleName |-> tt.Name, diags |-> <<>>]
    ELSE [moduleName |-> <<>>,    diags |-> <<DetailModuleName>>]

\* gocty.FromCtyValue(idx.Key, &idxInt), line 148
FromCtyValueInt(v) == [ok |-> v.form = "int", val |-> v.nval]

\* a conversion that truncates instead of failing
IndexKey_Truncating(v) ==
    IF v.type = "string" THEN [key |-> stringKey(v.sval), diags |-> <<>>]
    ELSE IF v.type = "number" THEN [key |-> intKey(v.nval), diags |-> <<>>]
    ELSE [key |-> NoKey, diags |-> <<DetailModuleKey>>]

\* lines 143-167: the instance key given by an index token
IndexKey(v) ==
    IF v.type = "string" THEN [key |-> stringKey(v.sval), diags |-> <<>>]
    ELSE IF v.type = "number" THEN
        IF FromCtyValueInt(v).ok
        THEN [key |-> intKey(FromCtyValueInt(v).val), diags |-> <<>>]
        ELSE [key |-> NoKey, diags |-> <<DetailModuleIndex>>]
    ELSE [key |-> NoKey, diags |-> <<DetailModuleKey>>]

\* lines 85-172: one iteration of the loop, for a non-empty remain
Iteration(r, s, d) ==
    LET nn == NextName(r[1])
        d1 == d \o nn.diags
    IN  IF nn.next # kwModule
        THEN [remain |-> r, mi |-> s, diags |-> d1, brk |-> TRUE]
        ELSE
          LET r1 == Tail(r) IN
          IF Len(r1) = 0
          THEN [remain |-> r1, mi |-> s,
                diags |-> Append(d1, DetailModuleName), brk |-> TRUE]
          ELSE
            LET mn     == ModuleName(r1[1])
                r2     == Tail(r1)
                hasIdx == Len(r2) > 0 /\ r2[1].kind = "Index"
                ik     == IF hasIdx THEN IndexKey(r2[1].Key)
                                    ELSE [key |-> NoKey, diags |-> <<>>]
                step   == ModuleInstanceStep(mn.moduleName, ik.key)
            IN  [remain |-> IF hasIdx THEN Tail(r2) ELSE r2,
                 mi     |-> Append(s, step),
                 diags  |-> d1 \o mn.diags \o ik.diags,
                 brk    |-> FALSE]

\* a return that hands the remainder back as it is
Normalize_Never(r) == r

\* lines 174-188: the remainder handed back to the caller
Normalize(r) ==
    IF Len(r) > 0 /\ r[1].kind = "Attr"
    THEN <<TraverseRoot(r[1].Name)>> \o Tail(r)
    ELSE r

\* the loop condition holds: run one iteration
LoopIterate ==
    /\ ppc = "loop"
    /\ Len(remain) > 0
    /\ LET it == Iteration(remain, mi, diags) IN
         /\ remain' = it.remain
         /\ mi' = it.mi
         /\ diags' = it.diags
         /\ ppc' = IF it.brk THEN "ret" ELSE "loop"
    /\ UNCHANGED <<src, str, traversal, retRemain, addr, entry>>
    /\ UNCHANGED <<addrVars, flatVars, expVars>>

\* the loop condition fails
LoopExit ==
    /\ ppc = "loop"
    /\ Len(remain) = 0
    /\ ppc' = "ret"
    /\ UNCHANGED <<src, str, traversal, remain, mi, diags, retRemain, addr, entry>>
    /\ UNCHANGED <<addrVars, flatVars, expVars>>

\* lines 174-190
ReturnPrefix ==
    /\ ppc = "ret"
    /\ retRemain' = Normalize(remain)
    /\ ppc' = "returned"
    /\ UNCHANGED <<src, str, traversal, remain, mi, diags, addr, entry>>
    /\ UNCHANGED <<addrVars, flatVars, expVars>>

\* parseModuleInstance, lines 30-48, after the prefix parser has returned
ParseModuleInstanceReturn ==
    /\ ppc = "returned"
    /\ diags' = IF Len(retRemain) # 0
                THEN IF Len(retRemain) = Len(traversal)
                     THEN Append(diags, DetailMustBegin)
                     ELSE Append(diags, DetailAdditional)
                ELSE diags
    /\ addr' = mi
    /\ ppc' = "done"
    /\ UNCHANGED <<src, str, traversal, remain, mi, retRemain, entry>>
    /\ UNCHANGED <<addrVars, flatVars, expVars>>

TokenNames == {kwModule, <<"a">>}
TokenKeys  == {ctyString(<<"x">>), ctyNumber(2, "int"), ctyNumber(1, "frac"),
               ctyNumber(9, "huge"), ctyBool}
FirstTokens == {TraverseRoot(n) : n \in TokenNames}
LaterTokens == {TraverseAttr(n) : n \in TokenNames} \cup {TraverseIndex(k) : k \in TokenKeys}

\* traversals as the HCL parser builds them: a root, then attributes and indices
Traversals ==
    {<<>>} \cup
    {<<f>> \o rest : f \in FirstTokens, rest \in SeqsUpTo(LaterTokens, MaxTokens - 1)}

InitTraversal ==
    /\ entry = "parseModuleInstance"
    /\ src = <<>> /\ str = <<>>
    /\ traversal \in Traversals
    /\ remain = traversal
    /\ mi = <<>> /\ diags = <<>> /\ retRemain = <<>> /\ addr = <<>>
    /\ ppc = "loop"
    \* the state of the other operations stays as it is
    /\ m = <<>> /\ arg = Targetable("ModuleInstance", <<>>)
    /\ to = Targetable("ModuleInstance", <<>>) /\ result = FALSE /\ cpc = "idle"
    /\ built = [Path |-> RootModulePath, vertices |-> {}, edges |-> {}]
    /\ graph = [Path |-> RootModulePath, vertices |-> {}, edges |-> {}]
    /\ pathStr = "" /\ todo = {} /\ panicMsg = "" /\ fpc = "idle"
    /\ heap = <<>> /\ calls = <<>> /\ evals = <<>> /\ walk = "walkInvalid"

---------------------------------------------------------------------------
(* Claims about parseModuleInstancePrefix *)

PrefixReturned == ppc \in {"returned", "done"}

InDiags(detail) == \E i \in 1..Len(diags) : diags[i] = detail

MalformedName ==
    /\ ppc = "loop"
    /\ Len(remain) >= 2
    /\ NextName(remain[1]).next = kwModule
    /\ remain[2].kind # "Attr"

\* C8: when the keyword "module" is followed by a token that is not a plain
\* name token, the diagnostic "must be followed by a module name" is recorded
\* and parsing aborts: no step is appended, no further token is consumed, and
\* the steps consumed before it are what is returned.
C8_MalformedNameAborts ==
    [][MalformedName =>
          /\ diags' = Append(diags, DetailModuleName)
          /\ mi' = mi
          /\ remain' = Tail(remain)
          /\ ppc' = "ret"]_vars

\* the keyword "module", a plain name and an index token are at the head of remain
IndexedStep ==
    /\ ppc = "loop"
    /\ Len(remain) >= 3
    /\ NextName(remain[1]).next = kwModule
    /\ remain[2].kind = "Attr"
    /\ remain[3].kind = "Index"

\* C9: after a module name, a string index gives the step that string key, a
\* numeric index convertible to an integer gives it that integer key, and a
\* numeric index that cannot be converted records an error diagnostic while
\* the step is appended with no key; the index token is consumed and parsing
\* continues with the next token.
C9_IndexKeys ==
    [][IndexedStep =>
          LET name == remain[2].Name
              k    == remain[3].Key
          IN  /\ remain' = SubSeq(remain, 4, Len(remain))
              /\ ppc' = "loop"
              /\ Len(mi') = Len(mi) + 1
              /\ SubSeq(mi', 1, Len(mi)) = mi
              /\ mi'[Len(mi')].Name = name
              /\ (k.type = "string" =>
                     /\ mi'[Len(mi')].InstanceKey = stringKey(k.sval)
                     /\ diags' = diags)
              /\ ((k.type = "number" /\ k.form = "int") =>
                     /\ mi'[Len(mi')].InstanceKey = intKey(k.nval)
                     /\ diags' = diags)
              /\ ((k.type = "number" /\ k.form # "int") =>
                     /\ mi'[Len(mi')].InstanceKey = NoKey
                     /\ mi'[Len(mi')] = ModuleInstanceStep(name, NoKey)
                     /\ diags' = Append(diags, DetailModuleIndex))]_vars

\* module.a[1.5].module.a: the first step lost its key, the second step was
\* still parsed, and the address looks like module.a.module.a
C9_Witness ==
    /\ ppc = "done"
    /\ traversal = <<TraverseRoot(kwModule), TraverseAttr(<<"a">>),
                     TraverseIndex(ctyNumber(1, "frac")),
                     TraverseAttr(kwModule), TraverseAttr(<<"a">>)>>
    /\ addr = <<ModuleInstanceStep(<<"a">>, NoKey), ModuleInstanceStep(<<"a">>, NoKey)>>
    /\ diags = <<DetailModuleIndex>>

---------------------------------------------------------------------------
(* ModuleInstance.String *)

DigitChars == <<"0", "1", "2", "3", "4", "5", "6", "7", "8", "9">>

\* fmt.Sprintf("%d", n)
RECURSIVE FormatInt(_)
FormatInt(n) ==
    IF n < 0 THEN <<"-">> \o FormatInt(0 - n)
    ELSE IF n < 10 THEN <<DigitChars[n + 1]>>
    ELSE FormatInt(n \div 10) \o <<DigitChars[(n % 10) + 1]>>

\* fmt.Sprintf("%q", s), for printable characters
RECURSIVE QuoteBody(_)
QuoteBody(s) ==
    IF Len(s) = 0 THEN <<>>
    ELSE (IF Head(s) \in {"\"", "\\"} THEN <<"\\", Head(s)>> ELSE <<Head(s)>>)
             \o QuoteBody(Tail(s))

\* instanceKey.String
KeyString(k) ==
    IF k.type = "int" THEN <<"[">> \o FormatInt(k.ival) \o <<"]">>
    ELSE IF k.type = "string" THEN <<"[", "\"">> \o QuoteBody(k.sval) \o <<"\"", "]">>
    ELSE <<>>

\* a loop body that never writes the separator
StepString_NoSeparator(sep, step) ==
    <<"m", "o", "d", "u", "l", "e", ".">> \o step.Name
        \o (IF step.InstanceKey # NoKey THEN KeyString(step.InstanceKey) ELSE <<>>)

\* the body of the loop of lines 240-248 for one step
StepString(sep, step) ==
    sep \o <<"m", "o", "d", "u", "l", "e", ".">> \o step.Name
        \o (IF step.InstanceKey # NoKey THEN KeyString(step.InstanceKey) ELSE <<>>)

RECURSIVE StringFrom(_, _, _, _)
StringFrom(mod, i, sep, buf) ==
    IF i > Len(mod) THEN buf
    ELSE StringFrom(mod, i + 1, <<".">>, buf \o StepString(sep, mod[i]))

String(mod) == StringFrom(mod, 1, <<>>, <<>>)

---------------------------------------------------------------------------
(* hclsyntax.ParseTraversalAbs, as called by ParseModuleInstanceStr: an      *)
(* identifier, then ".identifier", "[number]" and "[quoted string]" steps.  *)

Letters      == {"a", "b", "d", "e", "l", "m", "o", "u", "x"}
IsLetter(c)  == c \in Letters
IsDigit(c)   == \E i \in 1..10 : DigitChars[i] = c
IsIdentCont(c) == IsLetter(c) \/ IsDigit(c) \/ c \in {"-", "_"}

DigitValue(c) == (CHOOSE i \in 1..10 : DigitChars[i] = c) - 1

\* the index after the identifier characters that start at i
RECURSIVE IdentEnd(_, _)
IdentEnd(s, i) ==
    IF i <= Len(s) /\ IsIdentCont(s[i]) THEN IdentEnd(s, i + 1) ELSE i

\* the index after the digits that start at i
RECURSIVE DigitsEnd(_, _)
DigitsEnd(s, i) ==
    IF i <= Len(s) /\ IsDigit(s[i]) THEN DigitsEnd(s, i + 1) ELSE i

\* the value of the digits s[i..j-1]
RECURSIVE NumberValue(_, _, _, _)
NumberValue(s, i, j, acc) ==
    IF i >= j THEN acc ELSE NumberValue(s, i + 1, j, acc * 10 + DigitValue(s[i]))

\* the quoted string literal whose body starts at i: escapes \" and \\ are
\* decoded, a template sequence is rejected
RECURSIVE QuotedLit(_, _, _)
QuotedLit(s, i, acc) ==
    IF i > Len(s) THEN [ok |-> FALSE, val |-> <<>>, next |-> i]
    ELSE IF s[i] = "\"" THEN [ok |-> TRUE, val |-> acc, next |-> i + 1]
    ELSE IF s[i] = "\\" THEN
        IF i + 1 <= Len(s) /\ s[i + 1] \in {"\"", "\\"}
        THEN QuotedLit(s, i + 2, Append(acc, s[i + 1]))
        ELSE [ok |-> FALSE, val |-> <<>>, next |-> i]
    ELSE IF s[i] \in {"$", "%"} /\ i + 1 <= Len(s) /\ s[i + 1] = "{"
        THEN [ok |-> FALSE, val |-> <<>>, next |-> i]
    ELSE QuotedLit(s, i + 1, Append(acc, s[i]))

TraversalError == [ok |-> FALSE, traversal |-> <<>>]

\* the steps after the root name
RECURSIVE TraversalRest(_, _, _)
TraversalRest(s, i, acc) ==
    IF i > Len(s) THEN [ok |-> TRUE, traversal |-> acc]
    ELSE IF s[i] = "." THEN
        IF i + 1 <= Len(s) /\ IsLetter(s[i + 1])
        THEN LET e == IdentEnd(s, i + 1) IN
             TraversalRest(s, e, Append(acc, TraverseAttr(SubSeq(s, i + 1, e - 1))))
        ELSE TraversalError
    ELSE IF s[i] = "[" THEN
        IF i + 1 <= Len(s) /\ IsDigit(s[i + 1])
        THEN LET e == DigitsEnd(s, i + 1) IN
             IF e <= Len(s) /\ s[e] = "]"
             THEN TraversalRest(s, e + 1,
                      Append(acc, TraverseIndex(ctyNumber(NumberValue(s, i + 1, e, 0), "int"))))
             ELSE TraversalError
        ELSE IF i + 1 <= Len(s) /\ s[i + 1] = "\""
        THEN LET q == QuotedLit(s, i + 2, <<>>) IN
             IF q.ok /\ q.next <= Len(s) /\ s[q.next] = "]"
             THEN TraversalRest(s, q.next + 1, Append(acc, TraverseIndex(ctyString(q.val))))
             ELSE TraversalError
        ELSE TraversalError
    ELSE TraversalError

ParseTraversalAbs(s) ==
    IF Len(s) = 0 \/ ~IsLetter(s[1]) THEN TraversalError
    ELSE LET e == IdentEnd(s, 1) IN
         TraversalRest(s, e, <<TraverseRoot(SubSeq(s, 1, e - 1))>>)

DetailSyntax == "hclsyntax.ParseTraversalAbs"

---------------------------------------------------------------------------
(* ParseModuleInstanceStr(m.String()) *)

RenderNames == {<<"a">>, kwModule, <<"b", "-", "1">>, <<"a", ".", "b">>, <<"a", "[", "0", "]">>}
RenderKeys  == {NoKey, intKey(0), intKey(12), intKey(0 - 1), stringKey(<<>>),
                stringKey(<<"x">>), stringKey(<<"a", "\"", "\\">>), stringKey(<<"$", "{">>)}
RenderSteps == {ModuleInstanceStep(n, k) : n \in RenderNames, k \in RenderKeys}
RenderInstances == SeqsUpTo(RenderSteps, MaxSteps)

InitRoundTrip ==
    /\ entry = "ParseModuleInstanceStr"
    /\ src \in RenderInstances
    /\ str = <<>> /\ traversal = <<>> /\ remain = <<>>
    /\ mi = <<>> /\ diags = <<>> /\ retRemain = <<>> /\ addr = <<>>
    /\ ppc = "render"
    \* the state of the other operations stays as it is
    /\ m = <<>> /\ arg = Targetable("ModuleInstance", <<>>)
    /\ to = Targetable("ModuleInstance", <<>>) /\ result = FALSE /\ cpc = "idle"
    /\ built = [Path |-> RootModulePath, vertices |-> {}, edges |-> {}]
    /\ graph = [Path |-> RootModulePath, vertices |-> {}, edges |-> {}]
    /\ pathStr = "" /\ todo = {} /\ panicMsg = "" /\ fpc = "idle"
    /\ heap = <<>> /\ calls = <<>> /\ evals = <<>> /\ walk = "walkInvalid"

\* m.String()
RenderString ==
    /\ ppc = "render"
    /\ str' = String(src)
    /\ ppc' = "str"
    /\ UNCHANGED <<src, traversal, remain, mi, diags, retRemain, addr, entry>>
    /\ UNCHANGED <<addrVars, flatVars, expVars>>

\* ParseModuleInstanceStr, lines 69-73: the text is not a traversal
ParseStrSyntaxError ==
    /\ ppc = "str"
    /\ ~ParseTraversalAbs(str).ok
    /\ diags' = <<DetailSyntax>>
    /\ addr' = <<>>
    /\ ppc' = "done"
    /\ UNCHANGED <<src, str, traversal, remain, mi, retRemain, entry>>
    /\ UNCHANGED <<addrVars, flatVars, expVars>>

\* ParseModuleInstanceStr, lines 69-75: the traversal goes to parseModuleInstance
ParseStrTraversal ==
    /\ ppc = "str"
    /\ ParseTraversalAbs(str).ok
    /\ traversal' = ParseTraversalAbs(str).traversal
    /\ remain' = traversal'
    /\ ppc' = "loop"
    /\ UNCHANGED <<src, str, mi, diags, retRemain, addr, entry>>
    /\ UNCHANGED <<addrVars, flatVars, expVars>>

---------------------------------------------------------------------------
(* Claims about the round trip *)

StrReturned == ppc = "done" /\ entry = "ParseModuleInstanceStr"

NoEmptyName(mod) == \A i \in 1..Len(mod) : mod[i].Name # <<>>

\* C2: for every ModuleInstance none of whose step names is the empty string
\* (the root instance included), rendering it with String() and parsing the
\* text as a whole module instance address returns an equal address and no
\* error diagnostic.
C2_RoundTrip ==
    (StrReturned /\ NoEmptyName(src)) => (addr = src /\ diags = <<>>)

IsIdentifier(name) ==
    /\ Len(name) > 0
    /\ IsLetter(name[1])
    /\ \A i \in 1..Len(name) : IsIdentCont(name[i])

NoTemplate(s) ==
    \A i \in 1..Len(s) : ~(s[i] \in {"$", "%"} /\ i + 1 <= Len(s) /\ s[i + 1] = "{")

KeyReadable(k) ==
    \/ k.type = "none"
    \/ k.type = "int" /\ k.ival >= 0
    \/ k.type = "string" /\ NoTemplate(k.sval)

Readable(mod) ==
    /\ Len(mod) > 0
    /\ \A i \in 1..Len(mod) : IsIdentifier(mod[i].Name) /\ KeyReadable(mod[i].InstanceKey)

\* C2 (amended): the round trip holds for every ModuleInstance with at least
\* one step whose step names are identifiers and whose keys are no key, a
\* non-negative integer key, or a string key without a template sequence.
C2_RoundTripReadable ==
    (StrReturned /\ Readable(src)) => (addr = src /\ diags = <<>>)

\* module.a[12].module.module["a\"\\"] comes back as it was
C2_Witness ==
    /\ StrReturned
    /\ src = <<ModuleInstanceStep(<<"a">>, intKey(12)),
               ModuleInstanceStep(kwModule, stringKey(<<"a", "\"", "\\">>))>>
    /\ Len(str) = 35
    /\ addr = src
    /\ diags = <<>>

---------------------------------------------------------------------------
(* The subgraph of an expanded module: dag vertices and edges *)

\* a vertex: its identity, the name it answers, whether it implements
\* graphNodeModuleSkippable ("none" when it does not, else what FlattenSkip
\* answers), whether it implements graphNodeModuleWrappable, and, for a
\* graphNodeModuleFlatWrap, the PathString it carries
Vertex(id, name, skip, wrappable) ==
    [id |-> id, name |-> name, skip |-> skip, wrappable |-> wrappable,
     wrap |-> FALSE, PathString |-> ""]

\* &graphNodeModuleFlatWrap{graphNodeModuleWrappable: wn, PathString: pathStr}
FlatWrap(v, ps) == [v EXCEPT !.wrap = TRUE, !.PathString = ps]

\* graphNodeModuleFlatWrap.Name, and the Name of the wrapped vertex otherwise
VertexName(v) == IF v.wrap THEN v.PathString \o "." \o v.name ELSE v.name

\* dag.Graph.Remove: the vertex and every edge that touches it
Remove(g, v) ==
    [g EXCEPT !.vertices = @ \ {v},
              !.edges = {e \in @ : e[1] # v /\ e[2] # v}]

\* dag.Graph.Replace: add the replacement, connect it to every target and
\* every source of the original, remove the original
Replace(g, v, w) ==
    LET added == [g EXCEPT !.vertices = @ \cup {w},
                           !.edges = @ \cup {<<w, e[2]>> : e \in {d \in g.edges : d[1] = v}}
                                       \cup {<<e[1], w>> : e \in {u \in g.edges : u[2] = v}}]
    IN  Remove(added, v)

RECURSIVE Join(_, _)
Join(parts, sep) ==
    IF Len(parts) = 0 THEN ""
    ELSE IF Len(parts) = 1 THEN parts[1]
    ELSE parts[1] \o sep \o Join(Tail(parts), sep)

RECURSIVE ModuleParts(_)
ModuleParts(names) ==
    IF Len(names) = 0 THEN <<>>
    ELSE <<"module", Head(names)>> \o ModuleParts(Tail(names))

\* a path string that keeps the root segment
PathString_WithRoot(path) == Join(ModuleParts(path), ".")

\* lines 163-171
PathString(path) == Join(ModuleParts(Tail(path)), ".")

\* a test that asks only whether the vertex implements the interface
Skipped_Implements(v) == v.skip # "none"

\* line 177: sn, ok := v.(graphNodeModuleSkippable); ok && sn.FlattenSkip()
Skipped(v) == v.skip = "yes"

\* a test that takes every vertex to be wrappable
Unwrappable_Never(v) == FALSE

\* lines 182-183: wn, ok := v.(graphNodeModuleWrappable); !ok
Unwrappable(v) == ~v.wrappable

\* lines 158-176: the path string, and the vertices to visit
FlattenStart ==
    /\ fpc = "start"
    /\ pathStr' = PathString(graph.Path)
    /\ todo' = graph.vertices
    /\ fpc' = "loop"
    /\ UNCHANGED <<built, graph, panicMsg>>
    /\ UNCHANGED <<addrVars, parseVars, expVars>>

\* lines 177-180
FlattenRemove ==
    /\ fpc = "loop"
    /\ \E v \in todo :
          /\ Skipped(v)
          /\ graph' = Remove(graph, v)
          /\ todo' = todo \ {v}
    /\ UNCHANGED <<built, pathStr, panicMsg, fpc>>
    /\ UNCHANGED <<addrVars, parseVars, expVars>>

\* lines 182-185
FlattenPanic ==
    /\ fpc = "loop"
    /\ \E v \in todo :
          /\ ~Skipped(v)
          /\ Unwrappable(v)
          /\ panicMsg' = "unwrappable node: " \o VertexName(v)
          /\ todo' = todo \ {v}
    /\ fpc' = "panicked"
    /\ UNCHANGED <<built, graph, pathStr>>
    /\ UNCHANGED <<addrVars, parseVars, expVars>>

\* lines 187-192
FlattenReplace ==
    /\ fpc = "loop"
    /\ \E v \in todo :
          /\ ~Skipped(v)
          /\ ~Unwrappable(v)
          /\ graph' = Replace(graph, v, FlatWrap(v, pathStr))
          /\ todo' = todo \ {v}
    /\ UNCHANGED <<built, pathStr, panicMsg, fpc>>
    /\ UNCHANGED <<addrVars, parseVars, expVars>>

\* line 195
FlattenReturn ==
    /\ fpc = "loop"
    /\ todo = {}
    /\ fpc' = "returned"
    /\ UNCHANGED <<built, graph, pathStr, todo, panicMsg>>
    /\ UNCHANGED <<addrVars, parseVars, expVars>>

VertexNames == <<"aws_instance.web", "var.region", "output.ip", "provider.aws", "aws_eip.ip">>
SkipAnswers == {"none", "no", "yes"}
\* the path of a module's subgraph: the root segment, then the call names
GraphPaths  == {RootModulePath \o <<"net">>, RootModulePath \o <<"a", "b">>}

\* the graph the builder hands over for vertices 1..n: acyclic, every edge
\* from a vertex to a vertex of a higher identity
BuiltGraph(p, n, sk, wr, es) ==
    [Path |-> p,
     vertices |-> {Vertex(i, VertexNames[i], sk[i], wr[i]) : i \in 1..n},
     edges |-> {<<Vertex(e[1], VertexNames[e[1]], sk[e[1]], wr[e[1]]),
                  Vertex(e[2], VertexNames[e[2]], sk[e[2]], wr[e[2]])>> : e \in es}]

InitFlatten ==
    /\ \E n \in 0..MaxVertices :
         \E p \in GraphPaths, sk \in [1..n -> SkipAnswers], wr \in [1..n -> BOOLEAN],
            es \in SUBSET {e \in (1..n) \X (1..n) : e[1] < e[2]} :
              built = BuiltGraph(p, n, sk, wr, es)
    /\ graph = built
    /\ pathStr = ""
    /\ todo = {}
    /\ panicMsg = ""
    /\ fpc = "start"
    \* the state of the other operations stays as it is
    /\ m = <<>> /\ arg = Targetable("ModuleInstance", <<>>)
    /\ to = Targetable("ModuleInstance", <<>>) /\ result = FALSE /\ cpc = "idle"
    /\ src = <<>> /\ str = <<>> /\ traversal = <<>> /\ remain = <<>>
    /\ mi = <<>> /\ diags = <<>> /\ retRemain = <<>> /\ addr = <<>>
    /\ entry = "none" /\ ppc = "idle"
    /\ heap = <<>> /\ calls = <<>> /\ evals = <<>> /\ walk = "walkInvalid"

---------------------------------------------------------------------------
(* Claims about FlattenGraph *)

\* "module.n1.module.n2. ... .module.nk.X" for the names n1..nk
RECURSIVE Qualified(_, _)
Qualified(names, x) ==
    IF Len(names) = 0 THEN x
    ELSE "module." \o Head(names) \o "." \o Qualified(Tail(names), x)

\* C4: after FlattenGraph on a subgraph whose path is the root segment
\* followed by n1..nk (k >= 1), every retained vertex whose original name is
\* X is named "module.n1.module.n2. ... .module.nk.X".
C4_FlattenNaming ==
    (fpc = "returned" /\ Len(graph.Path) >= 2) =>
        \A v \in graph.vertices :
            /\ v.wrap
            /\ VertexName(v) = Qualified(Tail(graph.Path), v.name)

\* path [root, net] and vertex "aws_instance.web" give "module.net.aws_instance.web"
C4_Witness ==
    /\ fpc = "returned"
    /\ graph.Path = <<"root", "net">>
    /\ \E v \in built.vertices : v.name = "aws_instance.web"
    /\ \E v \in graph.vertices : VertexName(v) = "module.net.aws_instance.web"

Retained == {v \in built.vertices : v.skip # "yes"}

RetainedEdges == {e \in built.edges : e[1] \in Retained /\ e[2] \in Retained}

\* C5: when FlattenGraph completes the subgraph holds no vertex that declared
\* itself skippable, exactly one Flat-Wrapped vertex for each non-skippable
\* original vertex, and an edge between two wrappers iff there was an edge
\* between the vertices they wrap; the number of edges between retained
\* vertices is unchanged.
C5_FlattenFrame ==
    fpc = "returned" =>
        /\ \A w \in graph.vertices : w.skip # "yes" /\ w.wrap
        /\ \A v \in Retained :
              Cardinality({w \in graph.vertices : w.wrap /\ w.id = v.id}) = 1
        /\ \A w \in graph.vertices : \E v \in Retained : w = FlatWrap(v, pathStr)
        /\ \A u \in Retained, v \in Retained :
              (<<FlatWrap(u, pathStr), FlatWrap(v, pathStr)>> \in graph.edges)
                  <=> (<<u, v>> \in built.edges)
        /\ Cardinality(graph.edges) = Cardinality(RetainedEdges)

\* three vertices, the second skippable: the edge 1 -> 3 survives and the
\* edges through the removed vertex are gone
C5_Witness ==
    /\ fpc = "returned"
    /\ Cardinality(built.vertices) = 3
    /\ Cardinality(built.edges) = 3
    /\ Cardinality(Retained) = 2
    /\ \E v \in built.vertices : v.skip = "no"
    /\ Cardinality(graph.vertices) = 2
    /\ Cardinality(graph.edges) = 1

Defective(v) == v.skip # "yes" /\ ~v.wrappable

\* C6: FlattenGraph aborts, and does not return a graph, whenever the subgraph
\* holds a vertex that is not skipped and lacks the naming capability; a
\* skippable vertex never causes the abort, and a vertex that implements the
\* skippable capability but answers false is treated as non-skippable.
C6_FlattenAbort ==
    /\ fpc = "returned" => ~\E v \in built.vertices : Defective(v)
    /\ (fpc = "loop" /\ todo = {}) => ~\E v \in built.vertices : Defective(v)
    /\ fpc = "panicked" =>
          \E v \in built.vertices :
              /\ Defective(v)
              /\ panicMsg = "unwrappable node: " \o v.name
    /\ fpc = "loop" =>
          \A v \in built.vertices \ todo : ~Defective(v)

\* a vertex that answers FlattenSkip() false and cannot be named aborts the
\* flattening, next to a skippable vertex that cannot be named either
C6_Witness ==
    /\ fpc = "panicked"
    /\ \E v \in built.vertices : v.skip = "no" /\ ~v.wrappable
                                   /\ panicMsg = "unwrappable node: " \o v.name
    /\ \E v \in built.vertices : v.skip = "yes" /\ ~v.wrappable /\ v \notin todo

---------------------------------------------------------------------------
(* GraphNodeConfigModule.Expand *)

EmptyMap == [k \in {} |-> ""]

\* the module call sites of the configuration: path, call name, raw arguments
ConfigModule(path, name, raw) ==
    [Path |-> path, Module |-> [Name |-> name, RawConfig |-> raw]]

ConfigModules ==
    {ConfigModule(<<"root", "net">>, "net", "raw_net"),
     ConfigModule(<<"root", "db">>, "db", "raw_db")}

\* b.Build(n.Path): a graph for that path, not yet bound to a mapping
Build(path) == [Path |-> path, wired |-> 0]

\* a single mapping handed out to every caller
MakeMap_Shared(h) ==
    IF Len(h) = 0 THEN [heap |-> Append(h, EmptyMap), ref |-> 1]
    ELSE [heap |-> h, ref |-> 1]

\* make(map[string]string), line 61
MakeMap(h) == [heap |-> Append(h, EmptyMap), ref |-> Len(h) + 1]

\* ModuleInputTransformer.Transform: the variable vertices of the graph refer
\* to the transformer's mapping
Transform(g, ref) == [g EXCEPT !.wired = ref]

NoNode == ConfigModule(<<>>, "", "")

Failed(n, err) ==
    [ok |-> FALSE, err |-> err, Original |-> NoNode, Graph |-> Build(<<>>),
     InputConfig |-> "", Variables |-> 0]

\* &graphNodeModuleExpanded{...}, lines 67-72
Expanded(n, g, ref) ==
    [ok |-> TRUE, err |-> "", Original |-> n, Graph |-> g,
     InputConfig |-> n.Module.RawConfig, Variables |-> ref]

NotEvaluated ==
    [pos |-> 1, set |-> FALSE, resourceConfig |-> EmptyMap, trace |-> <<>>,
     destroyPath |-> <<>>, panicked |-> FALSE]

\* lines 55-58: the builder fails
ExpandBuildError ==
    /\ Len(calls) < MaxExpands
    /\ \E n \in ConfigModules :
          calls' = Append(calls, Failed(n, "build"))
    /\ evals' = Append(evals, NotEvaluated)
    /\ UNCHANGED <<heap, walk>>
    /\ UNCHANGED <<addrVars, parseVars, flatVars>>

\* lines 55-64: the graph is built, the transform fails
ExpandTransformError ==
    /\ Len(calls) < MaxExpands
    /\ \E n \in ConfigModules :
          /\ heap' = MakeMap(heap).heap
          /\ calls' = Append(calls, Failed(n, "transform"))
    /\ evals' = Append(evals, NotEvaluated)
    /\ UNCHANGED walk
    /\ UNCHANGED <<addrVars, parseVars, flatVars>>

\* lines 55-72: the expanded node is returned
ExpandReturn ==
    /\ Len(calls) < MaxExpands
    /\ \E n \in ConfigModules :
          LET mk == MakeMap(heap)
              g  == Transform(Build(n.Path), mk.ref)
          IN  /\ heap' = mk.heap
              /\ calls' = Append(calls, Expanded(n, g, mk.ref))
    /\ evals' = Append(evals, NotEvaluated)
    /\ UNCHANGED walk
    /\ UNCHANGED <<addrVars, parseVars, flatVars>>

---------------------------------------------------------------------------
(* graphNodeModuleExpanded.EvalTree and its evaluation *)

WalkOperations == {"walkApply", "walkPlan", "walkPlanDestroy", "walkRefresh"}

EvalNode(type, config, variables, ops, path) ==
    [type |-> type, Config |-> config, Variables |-> variables, Ops |-> ops, Path |-> path]

\* a program whose destroy step is filtered on the plan walk
EvalTree_PlanFilter(n) ==
    << EvalNode("EvalInterpolate", n.InputConfig, 0, {}, <<>>),
       EvalNode("EvalVariableBlock", "", n.Variables, {}, <<>>),
       EvalNode("EvalOpFilter", "", 0, {"walkPlan"}, n.Graph.Path) >>

\* lines 130-154: the EvalSequence; the EvalOpFilter carries the Path of the
\* EvalDiffDestroyModule it guards
EvalTree(n) ==
    << EvalNode("EvalInterpolate", n.InputConfig, 0, {}, <<>>),
       EvalNode("EvalVariableBlock", "", n.Variables, {}, <<>>),
       EvalNode("EvalOpFilter", "", 0, {"walkPlanDestroy"}, n.Graph.Path) >>

\* the values the evaluation context resolves a raw configuration to
Interpolated(raw) ==
    IF raw = "raw_net" THEN [k \in {"cidr"} |-> "10.0.0.0/16"]
    ELSE [k \in {"cidr", "size"} |-> IF k = "cidr" THEN "10.1.0.0/16" ELSE "small"]

\* the mapping with the resolved values copied into it
Copied(old, cfg) ==
    [k \in DOMAIN old \cup DOMAIN cfg |-> IF k \in DOMAIN cfg THEN cfg[k] ELSE old[k]]

\* the node the EvalSequence of call i is about to evaluate
Current(i) == EvalTree(calls[i])[evals[i].pos]

Evaluating(i) ==
    /\ i \in 1..Len(calls)
    /\ calls[i].ok
    /\ ~evals[i].panicked
    /\ evals[i].pos <= Len(EvalTree(calls[i]))

\* EvalInterpolate: Output receives the resolved configuration
EvalInterpolate ==
    /\ \E i \in 1..Len(calls) :
          /\ Evaluating(i)
          /\ Current(i).type = "EvalInterpolate"
          /\ evals' = [evals EXCEPT ![i] =
                 [@ EXCEPT !.pos = @ + 1, !.set = TRUE,
                           !.resourceConfig = Interpolated(Current(i).Config),
                           !.trace = Append(@, "EvalInterpolate")]]
    /\ UNCHANGED <<heap, calls, walk>>
    /\ UNCHANGED <<addrVars, parseVars, flatVars>>

\* EvalVariableBlock: the resolved values go into Variables; without a
\* resolved configuration the step dereferences nil
EvalVariableBlock ==
    /\ \E i \in 1..Len(calls) :
          /\ Evaluating(i)
          /\ Current(i).type = "EvalVariableBlock"
          /\ IF evals[i].set
             THEN /\ heap' = [heap EXCEPT ![Current(i).Variables] =
                                 Copied(@, evals[i].resourceConfig)]
                  /\ evals' = [evals EXCEPT ![i] =
                         [@ EXCEPT !.pos = @ + 1,
                                   !.trace = Append(@, "EvalVariableBlock")]]
             ELSE /\ heap' = heap
                  /\ evals' = [evals EXCEPT ![i] =
                         [@ EXCEPT !.panicked = TRUE,
                                   !.trace = Append(@, "EvalVariableBlock")]]
    /\ UNCHANGED <<calls, walk>>
    /\ UNCHANGED <<addrVars, parseVars, flatVars>>

\* EvalOpFilter on a walk operation of Ops: EvalDiffDestroyModule runs
EvalOpFilterRun ==
    /\ \E i \in 1..Len(calls) :
          /\ Evaluating(i)
          /\ Current(i).type = "EvalOpFilter"
          /\ walk \in Current(i).Ops
          /\ evals' = [evals EXCEPT ![i] =
                 [@ EXCEPT !.pos = @ + 1,
                           !.destroyPath = Current(i).Path,
                           !.trace = Append(@, "EvalDiffDestroyModule")]]
    /\ UNCHANGED <<heap, calls, walk>>
    /\ UNCHANGED <<addrVars, parseVars, flatVars>>

\* EvalOpFilter on any other walk operation: nothing runs
EvalOpFilterSkip ==
    /\ \E i \in 1..Len(calls) :
          /\ Evaluating(i)
          /\ Current(i).type = "EvalOpFilter"
          /\ walk \notin Current(i).Ops
          /\ evals' = [evals EXCEPT ![i] = [@ EXCEPT !.pos = @ + 1]]
    /\ UNCHANGED <<heap, calls, walk>>
    /\ UNCHANGED <<addrVars, parseVars, flatVars>>

InitExpand ==
    /\ heap = <<>>
    /\ calls = <<>>
    /\ evals = <<>>
    /\ walk \in WalkOperations
    \* the state of the other operations stays as it is
    /\ m = <<>> /\ arg = Targetable("ModuleInstance", <<>>)
    /\ to = Targetable("ModuleInstance", <<>>) /\ result = FALSE /\ cpc = "idle"
    /\ src = <<>> /\ str = <<>> /\ traversal = <<>> /\ remain = <<>>
    /\ mi = <<>> /\ diags = <<>> /\ retRemain = <<>> /\ addr = <<>>
    /\ entry = "none" /\ ppc = "idle"
    /\ built = [Path |-> RootModulePath, vertices |-> {}, edges |-> {}]
    /\ graph = [Path |-> RootModulePath, vertices |-> {}, edges |-> {}]
    /\ pathStr = "" /\ todo = {} /\ panicMsg = "" /\ fpc = "idle"

---------------------------------------------------------------------------
(* Claims about Expand and EvalTree *)

Returned == {i \in 1..Len(calls) : calls[i].ok}

Bound(i) == \E k \in 1..Len(evals[i].trace) : evals[i].trace[k] = "EvalVariableBlock"

\* C7: every successful Expand returns a node whose binding mapping is a newly
\* made, empty mapping, the one handed to the input-binding transform, and
\* shared with no other node: for any interleaving of Expand calls and
\* evaluation writes, a node's mapping holds nothing until its own evaluation
\* writes it and then exactly its own resolved values; Expand writes no entry.
C7_OwnBinding ==
    \A i \in Returned :
        /\ calls[i].Variables \in 1..Len(heap)
        /\ calls[i].Graph.wired = calls[i].Variables
        /\ \A j \in Returned \ {i} : calls[j].Variables # calls[i].Variables
        /\ heap[calls[i].Variables] =
               IF Bound(i) THEN Interpolated(calls[i].InputConfig) ELSE EmptyMap

\* the same call site expanded twice and another one once; the first node
\* has been bound, the other two mappings are still empty
C7_Witness ==
    /\ Len(calls) = 3
    /\ Returned = {1, 2, 3}
    /\ calls[1].Original = calls[2].Original
    /\ calls[3].Original # calls[1].Original
    /\ Bound(1) /\ ~Bound(2) /\ ~Bound(3)
    /\ heap[calls[1].Variables] # EmptyMap
    /\ heap[calls[2].Variables] = EmptyMap
    /\ heap[calls[3].Variables] = EmptyMap

IsPrefix(s, t) == Len(s) <= Len(t) /\ SubSeq(t, 1, Len(s)) = s

Finished(i) == evals[i].pos > 3

\* C10: the evaluation of an expanded node runs, in every walk mode, first
\* the interpolation, then the copy into the binding mapping (never written
\* before the interpolation has produced its result), then the destroy-diff
\* step for the subgraph's path, which runs iff the walk is the destroy-plan
\* walk and never before the first two steps.
C10_EvalOrder ==
    \A i \in Returned :
        /\ IsPrefix(evals[i].trace,
                    <<"EvalInterpolate", "EvalVariableBlock", "EvalDiffDestroyModule">>)
        /\ ~evals[i].panicked
        /\ evals[i].pos = Len(evals[i].trace) + 1
              \/ (evals[i].pos = 4 /\ Len(evals[i].trace) = 2)
        /\ (heap[calls[i].Variables] # EmptyMap => evals[i].set)
        /\ (Len(evals[i].trace) = 3 =>
               walk = "walkPlanDestroy" /\ evals[i].destroyPath = calls[i].Graph.Path)
        /\ (Finished(i) => (Len(evals[i].trace) = 3 <=> walk = "walkPlanDestroy"))

\* a destroy-plan walk that has run all three steps of the node of module.net
C10_Witness ==
    /\ walk = "walkPlanDestroy"
    /\ \E i \in Returned :
          /\ Finished(i)
          /\ evals[i].trace = <<"EvalInterpolate", "EvalVariableBlock", "EvalDiffDestroyModule">>
          /\ evals[i].destroyPath = <<"root", "net">>
          /\ heap[calls[i].Variables] = Interpolated("raw_net")

---------------------------------------------------------------------------
(* Specifications *)

NextFlatten ==
    \/ FlattenStart
    \/ FlattenRemove
    \/ FlattenPanic
    \/ FlattenReplace
    \/ FlattenReturn

SpecFlatten == InitFlatten /\ [][NextFlatten]_vars

NextExpand ==
    \/ ExpandBuildError
    \/ ExpandTransformError
    \/ ExpandReturn
    \/ EvalInterpolate
    \/ EvalVariableBlock
    \/ EvalOpFilterRun
    \/ EvalOpFilterSkip

SpecExpand == InitExpand /\ [][NextExpand]_vars

NextParse ==
    \/ LoopIterate
    \/ LoopExit
    \/ ReturnPrefix
    \/ ParseModuleInstanceReturn

Spec == InitTraversal /\ [][NextParse]_vars

NextRoundTrip ==
    \/ RenderString
    \/ ParseStrSyntaxError
    \/ ParseStrTraversal
    \/ LoopIterate
    \/ LoopExit
    \/ ReturnPrefix
    \/ ParseModuleInstanceReturn

SpecRoundTrip == InitRoundTrip /\ [][NextRoundTrip]_vars

NextContains ==
    \/ TargetContainsModuleInstance
    \/ TargetContainsResource
    \/ TargetContainsDefault

SpecContains == InitContains /\ [][NextContains]_vars

====
